---- MODULE Spec2Model ----
(***************************************************************************)
(* Walk-forward multi-model training (modelling/utils/model_trainer.py),   *)
(* initial training (modelling/train_models.py) and the incremental update *)
(* of a persisted prediction artifact (modelling/update_predictions.py)    *)
(* for one instrument.                                                     *)
(*                                                                         *)
(* Dates are day numbers.  Cell values are integers: observed closes and   *)
(* forecasts are non-negative, the missing values are the negative codes   *)
(* NaN (float nan), None (Python None) and Empty (an empty CSV cell).      *)
(***************************************************************************)
EXTENDS Integers, Sequences, FiniteSets, TLC

\* ---------------------------------------------------------------- bounds
MaxTail == 2
MaxClock == 2
MaxRuns == 3
\* rows of the fixed training split, data[:105] in train_models.main, scaled
TrainSplit == 2
MaxCalls == 3
ThreadRows == 2
MaxNames == 2

\* ------------------------------------------------------ program constants
\* rows kept by --test-run beyond the split: data.head(108)
TEST_RUN_EXTRA == 3
WEEK == 7
FALLBACK_WINDOW == 5

Ticker == "AAA"

NaN == 0 - 1
None == 0 - 2
Empty == 0 - 3

\* the close observed for a week, when one was observed
CloseOf(date) == date \div WEEK
Orders == {1, 2}
NoOrder == 0

ModelNames == {"SARIMA", "AutoTS", "TimeMOE"}

\* ------------------------------------------------------- sequence helpers
Head_n(s, n) == SubSeq(s, 1, IF n < Len(s) THEN n ELSE Len(s))

From_n(s, n) == SubSeq(s, n + 1, Len(s))

Filter(s, keep(_)) == SelectSeq(s, keep)

\* Series.max() and Series.min() of the Date column (NaT on an empty frame)
MaxDate(s) == IF s = <<>> THEN NaN
              ELSE s[CHOOSE k \in 1..Len(s) :
                       \A j \in 1..Len(s) : s[j].Date <= s[k].Date].Date

MinDate(s) == IF s = <<>> THEN NaN
              ELSE s[CHOOSE k \in 1..Len(s) :
                       \A j \in 1..Len(s) : s[k].Date <= s[j].Date].Date

IsNull(v) == v < 0

\* DataFrame.dropna(subset=['Weekly_Close'])
DropNa(s) == Filter(s, LAMBDA r : ~IsNull(r.Weekly_Close))

\* BaseTimeSeriesModel._validate_data: rows ordered by Date
SortRank(s, j) ==
  1 + Cardinality({k \in 1..Len(s) :
        \/ s[k].Date < s[j].Date
        \/ (s[k].Date = s[j].Date /\ k < j)})

IsSortedByDate(s) == \A k \in 1..(Len(s) - 1) : s[k].Date <= s[k + 1].Date

ValidateData(s) ==
  IF IsSortedByDate(s) THEN s
  ELSE [p \in 1..Len(s) |-> s[CHOOSE j \in 1..Len(s) : SortRank(s, j) = p]]

RequiredCols == {"Date", "Weekly_Close"}

\* BaseTimeSeriesModel._validate_data: missing_cols, a ValueError when not empty
MissingCols(cols) == RequiredCols \ cols

CloseSeries(s) == [k \in 1..Len(s) |-> s[k].Weekly_Close]

\* ------------------------------------------------------------ the models
\* the one-step forecast of a fit is an opaque function of the fitted series
Forecast(series) == Len(series)

NoFit == [fitted |-> FALSE, series |-> <<>>, order |-> NoOrder]

NewSarima == [model |-> NoFit, order |-> NoOrder]

NewAutoTS == [model |-> NoFit, has_data |-> FALSE, data |-> <<>>]

NewTimeMOE == [loaded |-> FALSE, has_data |-> FALSE, training_data |-> <<>>]

\* a train that runs the order search whatever the cache holds
SarimaTrainSearching(s, cache, valid, fitOk, found) ==
  LET series == CloseSeries(valid) IN
  IF fitOk
    THEN [state |-> [model |-> [fitted |-> TRUE, series |-> series,
                                order |-> found],
                     order |-> found],
          cache |-> found, raised |-> FALSE, searched |-> TRUE]
    ELSE [state |-> s, cache |-> cache, raised |-> TRUE, searched |-> TRUE]

\* a train that is given no ticker: it reads no cache entry and writes none
SarimaTrainUncached(s, cache, valid, fitOk, found) ==
  LET series == CloseSeries(valid) IN
  IF fitOk
    THEN [state |-> [model |-> [fitted |-> TRUE, series |-> series,
                                order |-> found],
                     order |-> found],
          cache |-> cache, raised |-> FALSE, searched |-> TRUE]
    ELSE [state |-> s, cache |-> cache, raised |-> TRUE, searched |-> TRUE]

\* SARIMAPredictor.train(data, ticker=ticker)
SarimaTrain(s, cache, valid, fitOk, found) ==
  LET series == CloseSeries(valid) IN
  IF cache # NoOrder
    THEN IF fitOk
           THEN [state |-> [model |-> [fitted |-> TRUE, series |-> series,
                                       order |-> cache],
                            order |-> cache],
                 cache |-> cache, raised |-> FALSE, searched |-> FALSE]
           ELSE [state |-> [s EXCEPT !.order = cache],
                 cache |-> cache, raised |-> TRUE, searched |-> FALSE]
    ELSE IF fitOk
           THEN [state |-> [model |-> [fitted |-> TRUE, series |-> series,
                                       order |-> found],
                            order |-> found],
                 cache |-> found, raised |-> FALSE, searched |-> TRUE]
           ELSE [state |-> s,
                 cache |-> cache, raised |-> TRUE, searched |-> TRUE]

\* SARIMAPredictor.predict()
SarimaPredict(s, predOk) ==
  IF ~s.model.fitted THEN [raised |-> TRUE, value |-> NaN]
  ELSE IF predOk THEN [raised |-> FALSE, value |-> Forecast(s.model.series)]
       ELSE [raised |-> TRUE, value |-> NaN]

\* a train that keeps the model of the previous call when the fit fails
AutoTSTrainKeeping(a, valid, fitOk) ==
  [state |-> [model |-> IF fitOk
                          THEN [fitted |-> TRUE, series |-> CloseSeries(valid),
                                order |-> NoOrder]
                          ELSE a.model,
              has_data |-> TRUE,
              data |-> CloseSeries(valid)],
   raised |-> FALSE]

\* AutoTSPredictor.train(data)
AutoTSTrain(a, valid, fitOk) ==
  LET data == valid IN
  [state |-> [model |-> IF fitOk
                          THEN [fitted |-> TRUE, series |-> CloseSeries(data),
                                order |-> NoOrder]
                          ELSE NoFit,
              has_data |-> TRUE,
              data |-> CloseSeries(data)],
   raised |-> FALSE]

RECURSIVE SumSeq(_)
SumSeq(s) == IF s = <<>> THEN 0 ELSE s[1] + SumSeq(Tail(s))

\* float(np.mean(values)), as 1000 + 60 * mean (60 is divisible by 1..5)
MeanCode(vals) ==
  IF vals = <<>> \/ \E k \in 1..Len(vals) : IsNull(vals[k]) THEN NaN
  ELSE 1000 + (60 * SumSeq(vals)) \div Len(vals)

LastValues(s, n) == SubSeq(s, IF Len(s) > n THEN Len(s) - n + 1 ELSE 1, Len(s))

\* a predict whose check of the model sits inside its try, so that an
\* instance without a model answers with the mean of the stored series
AutoTSPredictFallback(a, predOk) ==
  IF a.model.fitted /\ predOk
    THEN [raised |-> FALSE, value |-> Forecast(a.model.series)]
  ELSE IF a.has_data
         THEN [raised |-> FALSE,
               value |-> MeanCode(LastValues(a.data, FALLBACK_WINDOW))]
         ELSE [raised |-> TRUE, value |-> NaN]

\* AutoTSPredictor.predict()
AutoTSPredict(a, predOk) ==
  IF ~a.model.fitted THEN [raised |-> TRUE, value |-> NaN]
  ELSE IF predOk THEN [raised |-> FALSE, value |-> Forecast(a.model.series)]
       ELSE IF a.has_data
              THEN [raised |-> FALSE,
                    value |-> MeanCode(LastValues(a.data, FALLBACK_WINDOW))]
              ELSE [raised |-> TRUE, value |-> NaN]

\* a train that tries to load the weights on the first call only
TimeMOETrainOnce(t, valid, load) ==
  LET data == CloseSeries(valid)
      stored == [t EXCEPT !.has_data = TRUE, !.training_data = data]
  IN IF t.loaded \/ t.has_data
       THEN [state |-> stored, raised |-> FALSE, loading |-> FALSE]
     ELSE IF load = "ok"
            THEN [state |-> [stored EXCEPT !.loaded = TRUE],
                  raised |-> FALSE, loading |-> TRUE]
            ELSE [state |-> stored, raised |-> (load = "accelerate"),
                  loading |-> TRUE]

\* TimeMOEPredictor.train(data); load is "ok", "fail" or "accelerate"
TimeMOETrain(t, valid, load) ==
  LET data == CloseSeries(valid)
      stored == [t EXCEPT !.has_data = TRUE, !.training_data = data]
  IN IF t.loaded THEN [state |-> stored, raised |-> FALSE, loading |-> FALSE]
     ELSE IF load = "ok"
            THEN [state |-> [stored EXCEPT !.loaded = TRUE],
                  raised |-> FALSE, loading |-> TRUE]
            ELSE [state |-> stored, raised |-> (load = "accelerate"),
                  loading |-> TRUE]

\* a predict that answers with the mean of the stored observations when it
\* cannot forecast and FALLBACK_WINDOW or more are stored
TimeMOEPredictOrMean(t, fwdOk) ==
  IF t.loaded /\ t.has_data /\ fwdOk
    THEN [raised |-> FALSE, value |-> Forecast(t.training_data)]
  ELSE IF t.has_data /\ Len(t.training_data) >= FALLBACK_WINDOW
    THEN [raised |-> FALSE, value |-> MeanCode(t.training_data)]
  ELSE [raised |-> TRUE, value |-> NaN]

\* TimeMOEPredictor.predict()
TimeMOEPredict(t, fwdOk) ==
  IF ~t.loaded THEN [raised |-> TRUE, value |-> NaN]
  ELSE IF ~t.has_data THEN [raised |-> TRUE, value |-> NaN]
       ELSE IF fwdOk
              THEN [raised |-> FALSE, value |-> Forecast(t.training_data)]
              ELSE [raised |-> TRUE, value |-> NaN]

\* what the external libraries do in one pass over the three models
Outcomes ==
  [sFit : BOOLEAN, sFound : Orders, sPred : BOOLEAN,
   aFit : BOOLEAN, aPred : BOOLEAN,
   tLoad : {"ok", "fail", "accelerate"}, tFwd : BOOLEAN]

\* the outcomes in which each model either works or fails, one way each
OutcomeOf(sFails, aFails, tFails) ==
  [sFit |-> ~sFails, sFound |-> 1, sPred |-> TRUE,
   aFit |-> ~aFails, aPred |-> TRUE,
   tLoad |-> "ok", tFwd |-> ~tFails]

FaultPatterns ==
  {OutcomeOf(sf, af, tf) : sf \in BOOLEAN, af \in BOOLEAN, tf \in BOOLEAN}

\* a pass in which everything works but one library call
AllWork == OutcomeOf(FALSE, FALSE, FALSE)

ModelFaults ==
  {AllWork,
   [AllWork EXCEPT !.sFit = FALSE], [AllWork EXCEPT !.sFound = 2],
   [AllWork EXCEPT !.sPred = FALSE],
   [AllWork EXCEPT !.aFit = FALSE], [AllWork EXCEPT !.aPred = FALSE],
   [AllWork EXCEPT !.tLoad = "fail"], [AllWork EXCEPT !.tLoad = "accelerate"],
   [AllWork EXCEPT !.tFwd = FALSE]}

\* the pipeline's environment: a pass works, or its SARIMA fit fails
PipelineFaults == {OutcomeOf(FALSE, FALSE, FALSE), OutcomeOf(TRUE, FALSE, FALSE)}


NoBlock == [cell |-> NaN, failed |-> TRUE, escaped |-> TRUE]

\* a loop body without the try/except: the exception leaves the loop
Unguarded(trainRaised, pred) ==
  [cell |-> IF trainRaised \/ pred.raised THEN NaN ELSE pred.value,
   failed |-> trainRaised \/ pred.raised,
   escaped |-> trainRaised \/ pred.raised]

\* a loop body with one try around train and another around predict: after
\* a failed train the model is still asked for a prediction
GuardedSeparately(trainRaised, pred) ==
  [cell |-> IF pred.raised THEN NaN ELSE pred.value,
   failed |-> trainRaised \/ pred.raised,
   escaped |-> FALSE]

\* ModelTrainer.train: try: train, predict / except Exception: np.nan
Guarded(trainRaised, pred) ==
  [cell |-> IF trainRaised \/ pred.raised THEN NaN ELSE pred.value,
   failed |-> trainRaised \/ pred.raised,
   escaped |-> FALSE]

\* one pass "for name, model in self.models.items()" on one window; every
\* train starts with _validate_data(window), whose result is passed as valid
RunModels(s, a, t, cache, valid, o) ==
  LET st == SarimaTrain(s, cache, valid, o.sFit, o.sFound)
      sg == Guarded(st.raised, SarimaPredict(st.state, o.sPred))
      runA == ~sg.escaped
      at == IF runA THEN AutoTSTrain(a, valid, o.aFit)
            ELSE [state |-> a, raised |-> FALSE]
      ag == IF runA THEN Guarded(at.raised, AutoTSPredict(at.state, o.aPred))
            ELSE NoBlock
      runT == runA /\ ~ag.escaped
      tt == IF runT THEN TimeMOETrain(t, valid, o.tLoad)
            ELSE [state |-> t, raised |-> FALSE, loading |-> FALSE]
      tg == IF runT THEN Guarded(tt.raised, TimeMOEPredict(tt.state, o.tFwd))
            ELSE NoBlock
  IN [sarima |-> st.state, autots |-> at.state, timemoe |-> tt.state,
      cache |-> st.cache,
      SARIMA_pred |-> sg.cell, AutoTS_pred |-> ag.cell, TimeMOE_pred |-> tg.cell,
      trained |-> {"SARIMA"} \cup (IF runA THEN {"AutoTS"} ELSE {})
                             \cup (IF runT THEN {"TimeMOE"} ELSE {}),
      failed |-> {m \in ModelNames :
                    \/ (m = "SARIMA" /\ sg.failed)
                    \/ (m = "AutoTS" /\ ag.failed)
                    \/ (m = "TimeMOE" /\ tg.failed)},
      searched |-> st.searched,
      cached |-> cache,
      loading |-> tt.loading,
      raisedInTrain |-> {m \in ModelNames :
                           \/ (m = "SARIMA" /\ st.raised)
                           \/ (m = "AutoTS" /\ at.raised)
                           \/ (m = "TimeMOE" /\ tt.raised)},
      outcome |-> o,
      escaped |-> sg.escaped \/ ag.escaped \/ tg.escaped]

\* a pass in which every block ends in its except clause before any model
\* changed: called is the set of models whose train was called
NoPrediction(s, a, t, cache, o, called) ==
  [sarima |-> s, autots |-> a, timemoe |-> t, cache |-> cache,
   SARIMA_pred |-> NaN, AutoTS_pred |-> NaN, TimeMOE_pred |-> NaN,
   trained |-> called, failed |-> ModelNames,
   searched |-> FALSE, cached |-> cache, loading |-> FALSE,
   raisedInTrain |-> called, outcome |-> o, escaped |-> FALSE]

\* the pass of the walk-forward loop for one row: the logging line of each
\* block evaluates train_data.index[0] (an IndexError on an empty frame),
\* then train validates the columns of the window (a ValueError)
LoopPass(s, a, t, cache, window, cols, initial, o) ==
  IF initial = <<>> THEN NoPrediction(s, a, t, cache, o, {})
  ELSE IF MissingCols(cols) # {} THEN NoPrediction(s, a, t, cache, o, ModelNames)
  ELSE RunModels(s, a, t, cache, ValidateData(window), o)

\* ------------------------------------------------------------ persistence
\* DataFrame.to_csv: nan and None are both written as an empty cell
CsvCell(v) == IF IsNull(v) THEN Empty ELSE v

ToCsv(table) ==
  [k \in 1..Len(table) |->
     [Date |-> table[k].Date, ticker |-> table[k].ticker,
      SARIMA_pred |-> CsvCell(table[k].SARIMA_pred),
      AutoTS_pred |-> CsvCell(table[k].AutoTS_pred),
      TimeMOE_pred |-> CsvCell(table[k].TimeMOE_pred),
      actual |-> CsvCell(table[k].actual)]]

\* pd.read_csv: an empty cell is read as nan
ReadCell(v) == IF v = Empty THEN NaN ELSE v

\* load_existing_predictions
LoadExistingPredictions(content) ==
  [k \in 1..Len(content.rows) |->
     [Date |-> content.rows[k].Date, ticker |-> content.rows[k].ticker,
      SARIMA_pred |-> ReadCell(content.rows[k].SARIMA_pred),
      AutoTS_pred |-> ReadCell(content.rows[k].AutoTS_pred),
      TimeMOE_pred |-> ReadCell(content.rows[k].TimeMOE_pred),
      actual |-> ReadCell(content.rows[k].actual)]]

\* DataProcessor.load_company_data: Date, Weekly_Close and a ticker column
LoadCompanyData(src) ==
  [k \in 1..Len(src) |->
     [Date |-> src[k].Date, Weekly_Close |-> ReadCell(src[k].Weekly_Close),
      ticker |-> Ticker]]

\* the index of the last row, whatever its 'actual' holds
LastIndex(rows) == Len(rows)

\* Series.last_valid_index() on the 'actual' column; 0 stands for None
LastValidIndex(rows) ==
  IF \A k \in 1..Len(rows) : IsNull(rows[k].actual) THEN 0
  ELSE CHOOSE k \in 1..Len(rows) :
         /\ ~IsNull(rows[k].actual)
         /\ \A j \in (k + 1)..Len(rows) : IsNull(rows[j].actual)

\* a mask that also takes the cutoff row as new
RowsFrom(rows, d) == Filter(rows, LAMBDA r : r.Date >= d)

\* data[data['Date'] > start_date]
RowsAfter(rows, d) == Filter(rows, LAMBDA r : r.Date > d)

\* a training split that leaves the cutoff row out
RowsBefore(rows, d) == Filter(rows, LAMBDA r : r.Date < d)

\* data[data['Date'] <= start_date]
RowsUpTo(rows, d) == Filter(rows, LAMBDA r : r.Date <= d)

\* the header of a prediction file written by this program
ArtifactColumns ==
  {"Date", "ticker", "SARIMA_pred", "AutoTS_pred", "TimeMOE_pred", "actual"}

\* a file as left by a to_csv that ran to the end, or that stopped early
Written(rows, complete) ==
  [rows |-> rows, complete |-> complete, columns |-> ArtifactColumns]

HasAnyColumn(content) == content.columns # {}

\* "if 'actual' not in old_pred.columns"
HasActualColumn(content) == "actual" \in content.columns

SourceFoundForAll(tk) == TRUE

\* DataProcessor.find_company_folder: the scraped folder holds Ticker's series
SourceFound(tk) == tk = Ticker

FileNameThroughForecast(ts, tk, start, end) ==
  [timestamp |-> ts, ticker |-> tk, start |-> start, end |-> end + WEEK]

\* model_predictions_{timestamp}_{ticker}_{start}_{end}.csv
FileName(ts, tk, start, end) ==
  [timestamp |-> ts, ticker |-> tk, start |-> start, end |-> end]

WriteFile(fs, name, content) ==
  [n \in (DOMAIN fs) \cup {name} |-> IF n = name THEN content ELSE fs[n]]

RemoveFile(fs, name) == [n \in (DOMAIN fs) \ {name} |-> fs[n]]


\* ------------------------------------------------------------------ state
VARIABLES
  source,        \* {TICKER}_data.csv of the scraped folder: rows Date, Weekly_Close
  files,         \* prediction directory: file name -> [rows, complete]
  now,           \* last value read from the wall clock (seconds)
  sarimaCache,   \* {ticker}_params.json: the cached order, NoOrder when absent
  pc,            \* "idle", "loop", "save", "write", "remove"
  mode,          \* "initial" (train_models.main) or "update"
  sarima, autots, timemoe,   \* the three model instances of the trainer
  data, train_data, test_data,
  current_train, results, step,
  table,         \* the frame about to be written
  pred_file, old_pred, cut_idx,
  new_path,
  ret,           \* how the last finished run ended
  event,         \* the operation that produced this state
  log,           \* per pass over the models: window, models trained, failed
  runs,          \* runs started so far
  faults,        \* what the libraries may do in a pass of this environment
  frame_append,  \* the installed pandas still has DataFrame.append (before 2.0)
  batch,         \* update_predictions.main: the files of the directory still to do
  columns,       \* the columns of the frames handed to the trainer
  threads,       \* trainers run side by side in one process: ticker -> locals
  stdio          \* sys.stdout of the process: the stream bound, the streams closed

vars == <<source, files, now, sarimaCache, pc, mode, sarima, autots, timemoe,
          data, train_data, test_data, current_train, results, step, table,
          pred_file, old_pred, cut_idx, new_path, ret, event, log, runs, faults, frame_append, batch, columns, threads, stdio>>

NoFile == FileName(0, "", 0, 0)

\* the stream the interpreter starts with, and the one of open(os.devnull, 'w')
\* in call n of AutoTSPredictor.train by the trainer of ticker tk
RealStream == [owner |-> "process", n |-> 0]

DevNull(tk, n) == [owner |-> tk, n |-> n]

NoStdio == [bound |-> RealStream, closed |-> {}]

Event(act, file) == [act |-> act, file |-> file]

\* the scraped series at the start: TrainSplit consecutive weeks
SeedSource ==
  [k \in 1..TrainSplit |-> [Date |-> WEEK * k, Weekly_Close |-> CloseOf(WEEK * k)]]

Init ==
  /\ source = SeedSource
  /\ files = << >>
  /\ now = 1
  /\ sarimaCache = NoOrder
  /\ pc = "idle"
  /\ mode = "none"
  /\ sarima = NewSarima /\ autots = NewAutoTS /\ timemoe = NewTimeMOE
  /\ data = <<>> /\ train_data = <<>> /\ test_data = <<>>
  /\ current_train = <<>> /\ results = <<>> /\ step = 0
  /\ table = <<>>
  /\ pred_file = NoFile /\ old_pred = <<>> /\ cut_idx = 0
  /\ new_path = NoFile
  /\ ret = "none"
  /\ event = Event("init", NoFile)
  /\ log = <<>>
  /\ runs = 0
  /\ faults = PipelineFaults
  /\ frame_append \in BOOLEAN
  /\ batch = <<>>
  /\ columns = RequiredCols
  /\ threads = << >>
  /\ stdio = NoStdio

\* the locals of a finished run are dropped; logged is what the logger keeps
EndRunLogged(r, logged) ==
  /\ log' = logged
  /\ pc' = "idle"
  /\ mode' = "none"
  /\ sarima' = NewSarima /\ autots' = NewAutoTS /\ timemoe' = NewTimeMOE
  /\ data' = <<>> /\ train_data' = <<>> /\ test_data' = <<>>
  /\ current_train' = <<>> /\ results' = <<>> /\ step' = 0
  /\ table' = <<>>
  /\ pred_file' = NoFile /\ old_pred' = <<>> /\ cut_idx' = 0
  /\ new_path' = NoFile
  /\ ret' = r

EndRun(r) == EndRunLogged(r, <<>>)

\* BaseScraper._update_existing_data: the next week of the resampled series
\* is appended, with its close or, for a week without one, an empty cell
ScraperAppend ==
  /\ pc = "idle"
  /\ batch = <<>>
  /\ Len(source) < TrainSplit + MaxTail
  /\ \E observed \in BOOLEAN :
       LET date == source[Len(source)].Date + WEEK IN
       source' = Append(source, [Date |-> date,
                                 Weekly_Close |-> IF observed THEN CloseOf(date)
                                                  ELSE Empty])
  /\ event' = Event("ScraperAppend", NoFile)
  /\ UNCHANGED <<files, now, sarimaCache, pc, mode, sarima, autots, timemoe,
                 data, train_data, test_data, current_train, results, step,
                 table, pred_file, old_pred, cut_idx, new_path, ret, log, runs, faults, frame_append, batch, columns, threads, stdio>>

\* train_models.main up to the call of trainer.train
TrainMainBegin ==
  /\ pc = "idle"
  /\ batch = <<>>
  /\ runs < MaxRuns
  /\ runs' = runs + 1
  /\ \E test_run \in BOOLEAN :
       LET loaded == LoadCompanyData(source)
           d == IF test_run THEN Head_n(loaded, (TrainSplit + TEST_RUN_EXTRA)) ELSE loaded
       IN /\ data' = d
          /\ train_data' = Head_n(d, TrainSplit)
          /\ test_data' = From_n(d, TrainSplit)
          /\ current_train' = Head_n(d, TrainSplit)
  /\ sarima' = NewSarima /\ autots' = NewAutoTS /\ timemoe' = NewTimeMOE
  /\ results' = <<>>
  /\ step' = 1
  /\ log' = <<>>
  /\ pc' = "loop"
  /\ mode' = "initial"
  /\ event' = Event("TrainMainBegin", NoFile)
  /\ UNCHANGED <<source, files, now, sarimaCache, table, pred_file, old_pred,
                 cut_idx, new_path, ret, faults, frame_append, batch, columns, threads, stdio>>

\* a loop that records a row only when some model produced a prediction
AppendResultIfPredicted(rows, predictions) ==
  IF /\ IsNull(predictions.SARIMA_pred)
     /\ IsNull(predictions.AutoTS_pred)
     /\ IsNull(predictions.TimeMOE_pred)
    THEN rows
    ELSE Append(rows, predictions)

\* a loop that puts the newest row first
PrependResult(rows, predictions) == <<predictions>> \o rows

\* results.append(predictions)
AppendResult(rows, predictions) == Append(rows, predictions)

\* a window of fixed size that drops its oldest row when it takes a new one
RollingWindow(window, row) ==
  IF window = <<>> THEN <<row>> ELSE Append(Tail(window), row)

\* current_train = pd.concat([current_train, pd.DataFrame([row])])
ExpandWindow(window, row) == Append(window, row)

WindowOf(window, rowDate) ==
  [n |-> Len(window),
   dates |-> {window[k].Date : k \in 1..Len(window)},
   rowDate |-> rowDate]

\* what the logger records of one pass: the window, the models trained,
\* the cache entry read, whether the order search and the weight loading
\* ran, where exceptions were raised, and the state the models were left in
LogEntry(w, r) ==
  [n |-> w.n, dates |-> w.dates, rowDate |-> w.rowDate,
   trained |-> r.trained, failed |-> r.failed,
   cached |-> r.cached, searched |-> r.searched, order |-> r.sarima.model.order,
   loading |-> r.loading, loaded |-> r.timemoe.loaded,
   raisedInTrain |-> r.raisedInTrain, autots |-> r.autots.model.fitted,
   outcome |-> r.outcome]

\* ModelTrainer.train: one iteration of the loop over test_data; row['Date']
\* and row['Weekly_Close'] are read outside the try blocks (a KeyError)
TrainStep ==
  /\ pc = "loop"
  /\ step <= Len(test_data)
  /\ LET row == test_data[step]
         entry == WindowOf(current_train, row.Date)
     IN
     IF "Date" \notin columns
       THEN /\ EndRunLogged("KeyError", log)
            /\ UNCHANGED <<files, now, sarimaCache>>
       ELSE
     \E o \in faults :
       /\ LET r == LoopPass(sarima, autots, timemoe, sarimaCache, current_train,
                            columns, train_data, o)
              predictions == [Date |-> row.Date, ticker |-> Ticker,
                              SARIMA_pred |-> r.SARIMA_pred,
                              AutoTS_pred |-> r.AutoTS_pred,
                              TimeMOE_pred |-> r.TimeMOE_pred,
                              actual |-> row.Weekly_Close]
          IN /\ sarimaCache' = r.cache
             /\ IF r.escaped
                  THEN /\ EndRun("raised")
                       /\ UNCHANGED <<files, now>>
                  ELSE IF "Weekly_Close" \notin columns
                  THEN /\ EndRunLogged("KeyError", Append(log, LogEntry(entry, r)))
                       /\ UNCHANGED <<files, now>>
                  ELSE /\ sarima' = r.sarima /\ autots' = r.autots
                       /\ timemoe' = r.timemoe
                       /\ results' = AppendResult(results, predictions)
                       /\ log' = Append(log, LogEntry(entry, r))
                       /\ current_train' = ExpandWindow(current_train, row)
                       /\ step' = step + 1
                       /\ UNCHANGED <<files, now, pc, mode, data, train_data,
                                      test_data, table, pred_file, old_pred,
                                      cut_idx, new_path, ret>>
  /\ event' = Event("TrainStep", NoFile)
  /\ UNCHANGED <<source, runs, faults, frame_append, batch, columns, threads, stdio>>

\* the frame handed to forecast_next_week by the caller
ForecastInput == IF mode = "update" THEN DropNa(data) ELSE data

\* Date of the row built by ModelTrainer.forecast_next_week
NextWeekDate(d) == IF d = <<>> THEN NaN ELSE MaxDate(d) + WEEK

\* a slice old_pred.iloc[:cut_idx] that loses the cutoff row
AssembleWithoutCutoffRow(old, cut, new_results, next_week_row) ==
  SubSeq(old, 1, cut - 1) \o new_results \o <<next_week_row>>

\* the caller's frame: results plus the forecast row, after the old rows
Assemble(old, cut, new_results, next_week_row) ==
  SubSeq(old, 1, cut) \o new_results \o <<next_week_row>>

\* trainer.train returns; forecast_next_week; the table to persist is built:
\* results.append(next_week_forecast) in train_models.main (an AttributeError
\* where pandas has no DataFrame.append), pd.concat in update_predictions_file
ForecastNextWeek ==
  /\ pc = "loop"
  /\ step > Len(test_data)
  /\ LET fin == ForecastInput
         clean == DropNa(fin)
         valid == ValidateData(clean)
         next_week_date == NextWeekDate(fin)
         entry == WindowOf(clean, next_week_date)
     IN
     IF ~(RequiredCols \subseteq columns)
       THEN /\ EndRunLogged("KeyError", log)
            /\ UNCHANGED sarimaCache
       ELSE
     \E o \in faults :
       /\ LET r == RunModels(sarima, autots, timemoe, sarimaCache, valid, o)
              next_week_row == [Date |-> next_week_date, ticker |-> Ticker,
                                SARIMA_pred |-> r.SARIMA_pred,
                                AutoTS_pred |-> r.AutoTS_pred,
                                TimeMOE_pred |-> r.TimeMOE_pred,
                                actual |-> None]
          IN /\ sarimaCache' = r.cache
             /\ IF r.escaped \/ (mode = "initial" /\ ~frame_append)
                  THEN EndRun("raised")
                  ELSE /\ sarima' = r.sarima /\ autots' = r.autots
                       /\ timemoe' = r.timemoe
                       /\ log' = Append(log, LogEntry(entry, r))
                       /\ table' = IF mode = "update"
                                     THEN Assemble(old_pred, cut_idx, results,
                                                   next_week_row)
                                     ELSE Assemble(<<>>, 0, results, next_week_row)
                       /\ pc' = IF mode = "update" THEN "write" ELSE "save"
                       /\ UNCHANGED <<mode, data, train_data, test_data,
                                      current_train, results, step, pred_file,
                                      old_pred, cut_idx, new_path, ret>>
  /\ event' = Event("ForecastNextWeek", NoFile)
  /\ UNCHANGED <<source, files, now, runs, faults, frame_append, batch, columns, threads, stdio>>

\* what a failed to_csv leaves under the name: nothing new, or a truncated file
FailedWrite(fs, name, rows) ==
  {fs} \cup {WriteFile(fs, name, Written(SubSeq(rows, 1, k), FALSE)) :
               k \in 0..(Len(rows) - 1)}

\* file_utils.save_predictions, called at the end of train_models.main
SavePredictions ==
  /\ pc = "save"
  /\ \E ts \in now..MaxClock :
       LET name == FileName(ts, Ticker, MinDate(source), MaxDate(source)) IN
       /\ now' = ts
       /\ \/ /\ files' = WriteFile(files, name,
                                   Written(ToCsv(table), TRUE))
             /\ EndRun("saved")
          \/ /\ files' \in FailedWrite(files, name, ToCsv(table))
             /\ EndRun("raised")
  /\ event' = Event("SavePredictions", NoFile)
  /\ UNCHANGED <<source, sarimaCache, runs, faults, frame_append, batch, columns, threads, stdio>>

\* sorted(pred_dir.glob('model_predictions_*.csv')): the order of the names
TickerRank(tk) == IF tk = "AA" THEN 1 ELSE IF tk = "AAA" THEN 2 ELSE 3

NameBefore(a, b) ==
  \/ a.timestamp < b.timestamp
  \/ /\ a.timestamp = b.timestamp
     /\ \/ TickerRank(a.ticker) < TickerRank(b.ticker)
        \/ /\ a.ticker = b.ticker
           /\ \/ a.start < b.start
              \/ (a.start = b.start /\ a.end < b.end)

SortedNames(S) ==
  [p \in 1..Cardinality(S) |->
     CHOOSE n \in S : Cardinality({m \in S : NameBefore(m, n)}) = p - 1]

\* update_predictions_file(f) up to the call of trainer.train
UpdateAttempt(f) ==
  IF f \notin DOMAIN files
    THEN /\ EndRun("raised")
         /\ event' = Event("UpdateMissingFile", f)
  ELSE IF ~HasActualColumn(files[f])
    THEN /\ EndRun("raised")
         /\ event' = Event("UpdateMissingColumn", f)
  ELSE
    LET old == LoadExistingPredictions(files[f])
        cut == LastValidIndex(old)
        loaded == LoadCompanyData(source)
    IN IF cut = 0
         THEN /\ EndRun("None")
              /\ event' = Event("UpdateSkipped", f)
       ELSE IF ~SourceFound(f.ticker)
         THEN /\ EndRun("raised")
              /\ event' = Event("UpdateSourceError", f)
       ELSE IF RowsAfter(loaded, old[cut].Date) = <<>>
         THEN /\ EndRun("None")
              /\ event' = Event("UpdateNoNewData", f)
       ELSE /\ pred_file' = f
            /\ old_pred' = old
            /\ cut_idx' = cut
            /\ data' = loaded
            /\ train_data' = RowsUpTo(loaded, old[cut].Date)
            /\ test_data' = RowsAfter(loaded, old[cut].Date)
            /\ current_train' = RowsUpTo(loaded, old[cut].Date)
            /\ sarima' = NewSarima /\ autots' = NewAutoTS
            /\ timemoe' = NewTimeMOE
            /\ results' = <<>>
            /\ step' = 1
            /\ log' = <<>>
            /\ pc' = "loop"
            /\ mode' = "update"
            /\ event' = Event("UpdateBegin", f)
            /\ UNCHANGED <<table, new_path, ret>>

\* a loop without the try/except: an exception ends the whole run
AbortOnError(todo, raised) == IF raised THEN <<>> ELSE Tail(todo)

\* "except Exception as e: logger.error(...)  # Continue with other files"
Continue(todo, raised) == Tail(todo)

\* update_predictions.main: --single-file, or the next file of the directory
UpdateBegin ==
  /\ pc = "idle"
  /\ IF batch = <<>>
       THEN /\ runs < MaxRuns
            /\ runs' = runs + 1
            /\ batch' = batch
            /\ \E f \in DOMAIN files : UpdateAttempt(f)
       ELSE /\ runs' = runs
            /\ UpdateAttempt(Head(batch))
            /\ batch' = Continue(batch, pc' = "idle" /\ ret' = "raised")
  /\ UNCHANGED <<source, files, now, sarimaCache, faults, frame_append, columns, threads, stdio>>

\* update_predictions.main: the directory is listed once, before the loop
BatchBegin ==
  /\ pc = "idle"
  /\ batch = <<>>
  /\ runs < MaxRuns
  /\ DOMAIN files # {}
  /\ runs' = runs + 1
  /\ batch' = SortedNames(DOMAIN files)
  /\ event' = Event("BatchBegin", NoFile)
  /\ UNCHANGED <<source, files, now, sarimaCache, pc, mode, sarima, autots,
                 timemoe, data, train_data, test_data, current_train, results,
                 step, table, pred_file, old_pred, cut_idx, new_path, ret, log,
                 faults, frame_append, columns, threads, stdio>>

\* a prediction file of an instrument without a scraped folder
OtherArtifact ==
  Written(<<[Date |-> 2 * WEEK, ticker |-> "AA", SARIMA_pred |-> 1,
             AutoTS_pred |-> 1, TimeMOE_pred |-> 1, actual |-> 2],
            [Date |-> 3 * WEEK, ticker |-> "AA", SARIMA_pred |-> 2,
             AutoTS_pred |-> 2, TimeMOE_pred |-> 2, actual |-> Empty]>>, TRUE)

\* a file matching model_predictions_*.csv whose header has no 'actual'
NoActualFile ==
  [rows |-> <<>>, complete |-> TRUE, columns |-> ArtifactColumns \ {"actual"}]

\* an earlier prediction file of the instrument, confirmed up to week c
EarlierArtifact(c) ==
  Written([k \in 1..(c + 1) |->
             [Date |-> WEEK * k, ticker |-> Ticker, SARIMA_pred |-> k,
              AutoTS_pred |-> k, TimeMOE_pred |-> k,
              actual |-> IF k <= c THEN CloseOf(WEEK * k) ELSE Empty]], TRUE)

PlacedFiles ==
  {[name |-> FileName(0, Ticker, WEEK, WEEK * c), content |-> EarlierArtifact(c)] :
     c \in {TrainSplit - 1, TrainSplit}}
  \cup
  {[name |-> FileName(0, "AA", WEEK, 2 * WEEK), content |-> OtherArtifact],
   [name |-> FileName(0, "CCC", WEEK, 2 * WEEK), content |-> NoActualFile]}

\* the prediction directory also receives files this program did not write
\* now; their names carry a time before the clock's first reading
PlaceArtifact ==
  /\ pc = "idle"
  /\ batch = <<>>
  /\ \E pf \in PlacedFiles :
       /\ pf.name \notin DOMAIN files
       /\ files' = WriteFile(files, pf.name, pf.content)
  /\ event' = Event("PlaceArtifact", NoFile)
  /\ UNCHANGED <<source, now, sarimaCache, pc, mode, sarima, autots, timemoe,
                 data, train_data, test_data, current_train, results, step,
                 table, pred_file, old_pred, cut_idx, new_path, ret, log, runs,
                 faults, frame_append, batch, columns, threads, stdio>>

\* update_predictions_file: the new file name and updated_pred.to_csv
UpdateWrite ==
  /\ pc = "write"
  /\ \E ts \in now..MaxClock :
       LET name == FileName(ts, pred_file.ticker, MinDate(old_pred),
                           MaxDate(test_data)) IN
       /\ now' = ts
       /\ \/ /\ files' = WriteFile(files, name,
                                   Written(ToCsv(table), TRUE))
             /\ new_path' = name
             /\ pc' = "remove"
             /\ UNCHANGED <<mode, sarima, autots, timemoe, data, train_data,
                            test_data, current_train, results, step, table,
                            pred_file, old_pred, cut_idx, ret, log>>
          \/ /\ files' \in FailedWrite(files, name, ToCsv(table))
             /\ EndRun("raised")
  /\ event' = Event("UpdateWrite", pred_file)
  /\ UNCHANGED <<source, sarimaCache, runs, faults, frame_append, batch, columns, threads, stdio>>

\* update_predictions_file: os.remove(pred_file), OSError only logged
UpdateRemove ==
  /\ pc = "remove"
  /\ \/ files' = RemoveFile(files, pred_file)
     \/ files' = files
  /\ EndRun("path")
  /\ event' = Event("UpdateRemove", pred_file)
  /\ UNCHANGED <<source, now, sarimaCache, runs, faults, frame_append, batch, columns, threads, stdio>>

Next ==
  \/ ScraperAppend
  \/ TrainMainBegin
  \/ TrainStep
  \/ ForecastNextWeek
  \/ SavePredictions
  \/ UpdateBegin
  \/ UpdateWrite
  \/ UpdateRemove

Spec == Init /\ [][Next]_vars

\* one initial training run in which every pass may meet every failure
InitWalk ==
  /\ source = SeedSource
  /\ files = << >>
  /\ now = 1
  /\ sarimaCache = NoOrder
  /\ pc = "idle"
  /\ mode = "none"
  /\ sarima = NewSarima /\ autots = NewAutoTS /\ timemoe = NewTimeMOE
  /\ data = <<>> /\ train_data = <<>> /\ test_data = <<>>
  /\ current_train = <<>> /\ results = <<>> /\ step = 0
  /\ table = <<>>
  /\ pred_file = NoFile /\ old_pred = <<>> /\ cut_idx = 0
  /\ new_path = NoFile
  /\ ret = "none"
  /\ event = Event("init", NoFile)
  /\ log = <<>>
  /\ runs = MaxRuns - 1
  /\ faults = FaultPatterns
  /\ frame_append \in BOOLEAN
  /\ batch = <<>>
  /\ columns = RequiredCols
  /\ threads = << >>
  /\ stdio = NoStdio

NextWalk ==
  \/ ScraperAppend
  \/ TrainMainBegin
  \/ TrainStep
  \/ ForecastNextWeek
  \/ SavePredictions

SpecWalk == InitWalk /\ [][NextWalk]_vars


\* a scraped series long enough for a window of FALLBACK_WINDOW rows
LongSource ==
  [k \in 1..FALLBACK_WINDOW |->
     [Date |-> WEEK * k, Weekly_Close |-> CloseOf(WEEK * k)]]

\* one initial training run over the long series, with or without an order
\* cached by an earlier run, in which each pass may meet one failure
InitModels ==
  /\ source = LongSource
  /\ files = << >>
  /\ now = 1
  /\ sarimaCache \in {NoOrder} \cup Orders
  /\ pc = "idle"
  /\ mode = "none"
  /\ sarima = NewSarima /\ autots = NewAutoTS /\ timemoe = NewTimeMOE
  /\ data = <<>> /\ train_data = <<>> /\ test_data = <<>>
  /\ current_train = <<>> /\ results = <<>> /\ step = 0
  /\ table = <<>>
  /\ pred_file = NoFile /\ old_pred = <<>> /\ cut_idx = 0
  /\ new_path = NoFile
  /\ ret = "none"
  /\ event = Event("init", NoFile)
  /\ log = <<>>
  /\ runs = MaxRuns - 1
  /\ faults = ModelFaults
  /\ frame_append = TRUE
  /\ batch = <<>>
  /\ columns = RequiredCols
  /\ threads = << >>
  /\ stdio = NoStdio

NextModels ==
  \/ TrainMainBegin
  \/ TrainStep
  \/ ForecastNextWeek
  \/ SavePredictions

SpecModels == InitModels /\ [][NextModels]_vars

\* an initial training followed by one update
InitPair ==
  /\ source = SeedSource
  /\ files = << >>
  /\ now = 1
  /\ sarimaCache = NoOrder
  /\ pc = "idle"
  /\ mode = "none"
  /\ sarima = NewSarima /\ autots = NewAutoTS /\ timemoe = NewTimeMOE
  /\ data = <<>> /\ train_data = <<>> /\ test_data = <<>>
  /\ current_train = <<>> /\ results = <<>> /\ step = 0
  /\ table = <<>>
  /\ pred_file = NoFile /\ old_pred = <<>> /\ cut_idx = 0
  /\ new_path = NoFile
  /\ ret = "none"
  /\ event = Event("init", NoFile)
  /\ log = <<>>
  /\ runs = MaxRuns - 2
  /\ faults = PipelineFaults
  /\ frame_append \in BOOLEAN
  /\ batch = <<>>
  /\ columns = RequiredCols
  /\ threads = << >>
  /\ stdio = NoStdio

SpecPair == InitPair /\ [][Next]_vars

\* one run over a directory that also holds files of other origin, updated
\* one by one or all in one call
NextBatch ==
  \/ Next
  \/ BatchBegin
  \/ PlaceArtifact

InitBatch ==
  /\ source = SeedSource
  /\ files = << >>
  /\ now = 1
  /\ sarimaCache = NoOrder
  /\ pc = "idle"
  /\ mode = "none"
  /\ sarima = NewSarima /\ autots = NewAutoTS /\ timemoe = NewTimeMOE
  /\ data = <<>> /\ train_data = <<>> /\ test_data = <<>>
  /\ current_train = <<>> /\ results = <<>> /\ step = 0
  /\ table = <<>>
  /\ pred_file = NoFile /\ old_pred = <<>> /\ cut_idx = 0
  /\ new_path = NoFile
  /\ ret = "none"
  /\ event = Event("init", NoFile)
  /\ log = <<>>
  /\ runs = MaxRuns - 1
  /\ faults = {OutcomeOf(FALSE, FALSE, FALSE)}
  /\ frame_append = TRUE
  /\ batch = <<>>
  /\ columns = RequiredCols
  /\ threads = << >>
  /\ stdio = NoStdio

SpecBatch == InitBatch /\ [][NextBatch]_vars

\* ------------------------------------------ the trainer called directly
\* a caller that builds the frames itself: any split of the series, with or
\* without the required columns
ShortSource ==
  [k \in 1..(TrainSplit + 1) |->
     [Date |-> WEEK * k, Weekly_Close |-> CloseOf(WEEK * k)]]

\* trainer = ModelTrainer(); trainer.train(train_data, test_data, ticker)
TrainerBegin ==
  /\ pc = "idle"
  /\ runs < MaxRuns
  /\ runs' = runs + 1
  /\ \E cols \in SUBSET RequiredCols, n \in 0..Len(source) :
       /\ columns' = cols
       /\ data' = source
       /\ train_data' = Head_n(source, n)
       /\ test_data' = From_n(source, n)
       /\ current_train' = Head_n(source, n)
  /\ sarima' = NewSarima /\ autots' = NewAutoTS /\ timemoe' = NewTimeMOE
  /\ results' = <<>>
  /\ step' = 1
  /\ log' = <<>>
  /\ pc' = "loop"
  /\ mode' = "api"
  /\ event' = Event("TrainerBegin", NoFile)
  /\ UNCHANGED <<source, files, now, sarimaCache, table, pred_file, old_pred,
                 cut_idx, new_path, ret, faults, frame_append, batch, threads, stdio>>

InitTrainer ==
  /\ source = ShortSource
  /\ files = << >>
  /\ now = 1
  /\ sarimaCache = NoOrder
  /\ pc = "idle"
  /\ mode = "none"
  /\ sarima = NewSarima /\ autots = NewAutoTS /\ timemoe = NewTimeMOE
  /\ data = <<>> /\ train_data = <<>> /\ test_data = <<>>
  /\ current_train = <<>> /\ results = <<>> /\ step = 0
  /\ table = <<>>
  /\ pred_file = NoFile /\ old_pred = <<>> /\ cut_idx = 0
  /\ new_path = NoFile
  /\ ret = "none"
  /\ event = Event("init", NoFile)
  /\ log = <<>>
  /\ runs = MaxRuns - 1
  /\ faults = FaultPatterns
  /\ frame_append = TRUE
  /\ batch = <<>>
  /\ columns = RequiredCols
  /\ threads = << >>
  /\ stdio = NoStdio

NextTrainer == TrainerBegin \/ TrainStep \/ ForecastNextWeek

SpecTrainer == InitTrainer /\ [][NextTrainer]_vars

\* ------------------------------------- two trainers run in one process
\* one thread per instrument, each with its own ModelTrainer, running the
\* walk-forward loop over ThreadRows rows and writing its artifact; every
\* library call works, and a fit may or may not write to sys.stdout
Trainers == {"AA", "AAA"}

\* the series of either instrument: the training rows and ThreadRows more
ThreadSource ==
  [k \in 1..(TrainSplit + ThreadRows) |->
     [Date |-> WEEK * k, Weekly_Close |-> CloseOf(WEEK * k)]]

WindowOfThread(th) == Head_n(ThreadSource, TrainSplit + th.step - 1)

NewThread ==
  [pc |-> "sarima", step |-> 1, sarima |-> NewSarima, autots |-> NewAutoTS,
   params |-> NoOrder, original |-> RealStream, SARIMA_pred |-> NaN,
   results |-> <<>>]

\* the rows one trainer records when it runs alone
RECURSIVE SoloResults(_, _)
SoloResults(tk, n) ==
  IF n = 0 THEN <<>>
  ELSE LET window == Head_n(ThreadSource, TrainSplit + n - 1)
           row == ThreadSource[TrainSplit + n]
       IN Append(SoloResults(tk, n - 1),
                 [Date |-> row.Date, ticker |-> tk,
                  SARIMA_pred |-> Forecast(CloseSeries(window)),
                  AutoTS_pred |-> Forecast(CloseSeries(window)),
                  TimeMOE_pred |-> NaN,
                  actual |-> row.Weekly_Close])

\* model.train(current_train, ticker=ticker); model.predict() for SARIMA:
\* the cache file {ticker}_params.json is the thread's own
ThreadSarima(tk) ==
  LET th == threads[tk]
      st == SarimaTrain(th.sarima, th.params, ValidateData(WindowOfThread(th)),
                        TRUE, 1)
      sg == Guarded(st.raised, SarimaPredict(st.state, TRUE))
  IN /\ th.pc = "sarima"
     /\ threads' = [threads EXCEPT ![tk] =
                      [th EXCEPT !.pc = "swap", !.sarima = st.state,
                                 !.params = st.cache, !.SARIMA_pred = sg.cell]]
     /\ UNCHANGED <<stdio, files>>

\* AutoTSPredictor.train: original_stdout = sys.stdout;
\* sys.stdout = open(os.devnull, 'w') (sys.stderr alike)
ThreadSwap(tk) ==
  LET th == threads[tk] IN
  /\ th.pc = "swap"
  /\ threads' = [threads EXCEPT ![tk] =
                   [th EXCEPT !.pc = "fit", !.original = stdio.bound]]
  /\ stdio' = [stdio EXCEPT !.bound = DevNull(tk, th.step)]
  /\ UNCHANGED files

\* self.model.fit(df, ...): a write to a closed sys.stdout is a ValueError,
\* caught by the except clause of train, which sets self.model = None
ThreadFit(tk) ==
  LET th == threads[tk] IN
  /\ th.pc = "fit"
  /\ \E writes \in BOOLEAN :
       LET fitOk == ~(writes /\ stdio.bound \in stdio.closed)
           at == AutoTSTrain(th.autots, ValidateData(WindowOfThread(th)), fitOk)
       IN threads' = [threads EXCEPT ![tk] =
                        [th EXCEPT !.pc = "close", !.autots = at.state]]
  /\ UNCHANGED <<stdio, files>>

\* finally: sys.stdout.close()
ThreadClose(tk) ==
  LET th == threads[tk] IN
  /\ th.pc = "close"
  /\ threads' = [threads EXCEPT ![tk] = [th EXCEPT !.pc = "restore"]]
  /\ stdio' = [stdio EXCEPT !.closed = @ \cup {stdio.bound}]
  /\ UNCHANGED files

\* finally: sys.stdout = original_stdout
ThreadRestore(tk) ==
  LET th == threads[tk] IN
  /\ th.pc = "restore"
  /\ threads' = [threads EXCEPT ![tk] = [th EXCEPT !.pc = "predict"]]
  /\ stdio' = [stdio EXCEPT !.bound = th.original]
  /\ UNCHANGED files

\* model.predict() for AutoTS, results.append(predictions), next row
ThreadPredict(tk) ==
  LET th == threads[tk]
      row == ThreadSource[TrainSplit + th.step]
      ag == Guarded(FALSE, AutoTSPredict(th.autots, TRUE))
      predictions == [Date |-> row.Date, ticker |-> tk,
                      SARIMA_pred |-> th.SARIMA_pred,
                      AutoTS_pred |-> ag.cell,
                      TimeMOE_pred |-> NaN,
                      actual |-> row.Weekly_Close]
  IN /\ th.pc = "predict"
     /\ threads' = [threads EXCEPT ![tk] =
                      [th EXCEPT !.results = AppendResult(th.results, predictions),
                                 !.step = IF th.step < ThreadRows
                                            THEN th.step + 1 ELSE th.step,
                                 !.pc = IF th.step < ThreadRows
                                          THEN "sarima" ELSE "write"]]
     /\ UNCHANGED <<stdio, files>>

\* save_predictions: the name carries the ticker of the thread
ThreadWrite(tk) ==
  LET th == threads[tk]
      name == FileName(now, tk, MinDate(ThreadSource), MaxDate(ThreadSource))
  IN /\ th.pc = "write"
     /\ files' = WriteFile(files, name, Written(ToCsv(th.results), TRUE))
     /\ threads' = [threads EXCEPT ![tk] = [th EXCEPT !.pc = "done"]]
     /\ UNCHANGED stdio

ThreadStep ==
  /\ pc = "threads"
  /\ \E tk \in Trainers :
       \/ ThreadSarima(tk)
       \/ ThreadSwap(tk)
       \/ ThreadFit(tk)
       \/ ThreadClose(tk)
       \/ ThreadRestore(tk)
       \/ ThreadPredict(tk)
       \/ ThreadWrite(tk)
  /\ event' = Event("ThreadStep", NoFile)
  /\ UNCHANGED <<source, now, sarimaCache, pc, mode, sarima, autots, timemoe,
                 data, train_data, test_data, current_train, results, step,
                 table, pred_file, old_pred, cut_idx, new_path, ret, log, runs,
                 faults, frame_append, batch, columns>>

InitThreads ==
  /\ source = ThreadSource
  /\ files = << >>
  /\ now = 1
  /\ sarimaCache = NoOrder
  /\ pc = "threads"
  /\ mode = "none"
  /\ sarima = NewSarima /\ autots = NewAutoTS /\ timemoe = NewTimeMOE
  /\ data = <<>> /\ train_data = <<>> /\ test_data = <<>>
  /\ current_train = <<>> /\ results = <<>> /\ step = 0
  /\ table = <<>>
  /\ pred_file = NoFile /\ old_pred = <<>> /\ cut_idx = 0
  /\ new_path = NoFile
  /\ ret = "none"
  /\ event = Event("init", NoFile)
  /\ log = <<>>
  /\ runs = 0
  /\ faults = {AllWork}
  /\ frame_append = TRUE
  /\ batch = <<>>
  /\ columns = RequiredCols
  /\ threads = [tk \in Trainers |-> NewThread]
  /\ stdio = NoStdio

NextThreads == ThreadStep

SpecThreads == InitThreads /\ [][NextThreads]_vars

\* ------------------------------------------------- the artifact names
\* the spelling of the tickers of the model
Chars(tk) ==
  IF tk = "AAA" THEN <<"A", "A", "A">>
  ELSE IF tk = "AA" THEN <<"A", "A">>
  ELSE IF tk = "CCC" THEN <<"C", "C", "C">>
  ELSE IF tk = "BRK-B" THEN <<"B", "R", "K", "-", "B">>
  ELSE IF tk = "aaa" THEN <<"a", "a", "a">>
  ELSE <<>>

UpperLetters == {"A", "B", "C", "K", "R"}

Digits(width, value) == [kind |-> "digits", width |-> width, value |-> value]

Text(chars) == [kind |-> "text", width |-> Len(chars), value |-> chars]

\* "_".join(filename_parts) + ".csv" of save_predictions and the f-string of
\* update_predictions_file, as the parts between the underscores; the
\* timestamp %Y%m%d_%H%M%S gives two parts; the ticker is left out when it
\* is empty and the dates when one of them is None
NameText(name) ==
  <<Text(<<"model">>), Text(<<"predictions">>),
    Digits(8, name.timestamp), Digits(6, name.timestamp)>>
  \o (IF name.ticker # "" THEN <<Text(Chars(name.ticker))>> ELSE <<>>)
  \o (IF name.start # None /\ name.end # None
        THEN <<Digits(8, name.start), Digits(8, name.end)>> ELSE <<>>)

\* re.match(r'model_predictions_\d{8}_\d{6}_([A-Z]+)_\d{8}_\d{8}\.csv', name)
MatchesPattern(parts) ==
  /\ Len(parts) = 7
  /\ parts[1] = Text(<<"model">>) /\ parts[2] = Text(<<"predictions">>)
  /\ parts[3].kind = "digits" /\ parts[3].width = 8
  /\ parts[4].kind = "digits" /\ parts[4].width = 6
  /\ parts[5].kind = "text" /\ parts[5].width >= 1
  /\ \A k \in 1..parts[5].width : parts[5].value[k] \in UpperLetters
  /\ parts[6].kind = "digits" /\ parts[6].width = 8
  /\ parts[7].kind = "digits" /\ parts[7].width = 8

\* derive_ticker(pred_file): group 1 of the match, a ValueError without one
DeriveTicker(parts) ==
  IF MatchesPattern(parts)
    THEN [raised |-> FALSE, ticker |-> parts[5].value]
    ELSE [raised |-> TRUE, ticker |-> <<>>]

\* the values of --ticker given to train_models
TickerArgs == {"AAA", "AA", "BRK-B", "aaa"}

\* train_models.main to save_predictions: the name of the artifact written;
\* start_date and end_date are those of the folder name, None when the name
\* of the folder could not be parsed
NameInitial ==
  /\ pc = "names"
  /\ Cardinality(DOMAIN files) < MaxNames
  /\ \E tk \in TickerArgs, parsed \in BOOLEAN, ts \in now..MaxClock :
       LET name == IF parsed
                     THEN FileName(ts, tk, MinDate(source), MaxDate(source))
                     ELSE FileName(ts, tk, None, None)
       IN /\ now' = ts
          /\ new_path' = name
          /\ files' = WriteFile(files, name, Written(<<>>, TRUE))
  /\ pred_file' = NoFile
  /\ ret' = "saved"
  /\ event' = Event("NameInitial", NoFile)
  /\ UNCHANGED <<source, sarimaCache, pc, mode, sarima, autots, timemoe, data,
                 train_data, test_data, current_train, results, step, table,
                 old_pred, cut_idx, log, runs, faults, frame_append, batch,
                 columns, threads, stdio>>

\* update_predictions_file(f): ticker = args.ticker or derive_ticker(f), and
\* the name of the artifact written in place of f
NameUpdate ==
  /\ pc = "names"
  /\ \E f \in DOMAIN files, given \in {""} \cup TickerArgs, ts \in now..MaxClock :
       LET derived == DeriveTicker(NameText(f))
           name == FileName(ts, IF given # "" THEN given ELSE f.ticker,
                            MinDate(source), MaxDate(source))
       IN /\ now' = ts
          /\ pred_file' = f
          /\ IF given = "" /\ derived.raised
               THEN /\ ret' = "raised"
                    /\ new_path' = NoFile
                    /\ files' = files
               ELSE /\ ret' = "path"
                    /\ new_path' = name
                    /\ files' = RemoveFile(WriteFile(files, name,
                                                     Written(<<>>, TRUE)), f)
          /\ event' = Event("NameUpdate", f)
  /\ UNCHANGED <<source, sarimaCache, pc, mode, sarima, autots, timemoe, data,
                 train_data, test_data, current_train, results, step, table,
                 old_pred, cut_idx, log, runs, faults, frame_append, batch,
                 columns, threads, stdio>>

InitNames ==
  /\ source = SeedSource
  /\ files = << >>
  /\ now = 1
  /\ sarimaCache = NoOrder
  /\ pc = "names"
  /\ mode = "none"
  /\ sarima = NewSarima /\ autots = NewAutoTS /\ timemoe = NewTimeMOE
  /\ data = <<>> /\ train_data = <<>> /\ test_data = <<>>
  /\ current_train = <<>> /\ results = <<>> /\ step = 0
  /\ table = <<>>
  /\ pred_file = NoFile /\ old_pred = <<>> /\ cut_idx = 0
  /\ new_path = NoFile
  /\ ret = "none"
  /\ event = Event("init", NoFile)
  /\ log = <<>>
  /\ runs = 0
  /\ faults = {AllWork}
  /\ frame_append = TRUE
  /\ batch = <<>>
  /\ columns = RequiredCols
  /\ threads = << >>
  /\ stdio = NoStdio

NextNames == NameInitial \/ NameUpdate

SpecNames == InitNames /\ [][NextNames]_vars

\* ------------------------------------------- the models called directly
\* a caller that holds one instance of each model and calls train and predict
\* in any order; log records the calls
Call(call, m, ok, raised, value) ==
  [call |-> call, model |-> m, ok |-> ok, raised |-> raised, value |-> value]

\* model.train(window) for one of the three instances
ApiTrain ==
  /\ pc = "api"
  /\ Len(log) < MaxCalls
  /\ \E m \in ModelNames, n \in 1..Len(data), o \in faults :
       LET valid == ValidateData(Head_n(data, n))
           st == SarimaTrain(sarima, sarimaCache, valid, o.sFit, o.sFound)
           at == AutoTSTrain(autots, valid, o.aFit)
           tt == TimeMOETrain(timemoe, valid, o.tLoad)
       IN /\ sarima' = IF m = "SARIMA" THEN st.state ELSE sarima
          /\ sarimaCache' = IF m = "SARIMA" THEN st.cache ELSE sarimaCache
          /\ autots' = IF m = "AutoTS" THEN at.state ELSE autots
          /\ timemoe' = IF m = "TimeMOE" THEN tt.state ELSE timemoe
          /\ log' = Append(log,
                 IF m = "SARIMA" THEN Call("train", m, o.sFit, st.raised, None)
                 ELSE IF m = "AutoTS"
                        THEN Call("train", m, o.aFit, at.raised, None)
                 ELSE Call("train", m, o.tLoad = "ok", tt.raised, None))
  /\ event' = Event("ApiTrain", NoFile)
  /\ UNCHANGED <<source, files, now, pc, mode, data, train_data, test_data,
                 current_train, results, step, table, pred_file, old_pred,
                 cut_idx, new_path, ret, runs, faults, frame_append, batch, columns, threads, stdio>>

\* model.predict() for one of the three instances
ApiPredict ==
  /\ pc = "api"
  /\ Len(log) < MaxCalls
  /\ \E m \in ModelNames, o \in faults :
       LET p == IF m = "SARIMA" THEN SarimaPredict(sarima, o.sPred)
                ELSE IF m = "AutoTS" THEN AutoTSPredict(autots, o.aPred)
                ELSE TimeMOEPredict(timemoe, o.tFwd)
       IN log' = Append(log, Call("predict", m, ~p.raised, p.raised, p.value))
  /\ event' = Event("ApiPredict", NoFile)
  /\ UNCHANGED <<source, files, now, sarimaCache, pc, mode, sarima, autots,
                 timemoe, data, train_data, test_data, current_train, results,
                 step, table, pred_file, old_pred, cut_idx, new_path, ret,
                 runs, faults, frame_append, batch, columns, threads, stdio>>

InitApi ==
  /\ source = SeedSource
  /\ files = << >>
  /\ now = 1
  /\ sarimaCache = NoOrder
  /\ pc = "api"
  /\ mode = "none"
  /\ sarima = NewSarima /\ autots = NewAutoTS /\ timemoe = NewTimeMOE
  /\ data = LoadCompanyData(SeedSource)
  /\ train_data = <<>> /\ test_data = <<>>
  /\ current_train = <<>> /\ results = <<>> /\ step = 0
  /\ table = <<>>
  /\ pred_file = NoFile /\ old_pred = <<>> /\ cut_idx = 0
  /\ new_path = NoFile
  /\ ret = "none"
  /\ event = Event("init", NoFile)
  /\ log = <<>>
  /\ runs = 0
  /\ faults = ModelFaults
  /\ frame_append = TRUE
  /\ batch = <<>>
  /\ columns = RequiredCols
  /\ threads = << >>
  /\ stdio = NoStdio

NextApi == ApiTrain \/ ApiPredict

SpecApi == InitApi /\ [][NextApi]_vars

TypeOK ==
  /\ pc \in {"idle", "loop", "save", "write", "remove", "api"}
  /\ now \in 1..MaxClock
  /\ Len(source) <= TrainSplit + MaxTail

\* ----------------------------------------------------------------- claims
PredCell(row, m) ==
  IF m = "SARIMA" THEN row.SARIMA_pred
  ELSE IF m = "AutoTS" THEN row.AutoTS_pred
  ELSE row.TimeMOE_pred

\* C1: for every test horizon of T rows and every pattern of per-model
\* failures the walk-forward loop has recorded one row per test row it has
\* passed, train returns exactly T rows, and with the row of
\* forecast_next_week the output has exactly T + 1 rows.
C1_RowCount ==
  /\ pc = "loop" /\ step <= Len(test_data) => Len(results) = step - 1
  /\ pc = "loop" /\ step > Len(test_data) => Len(results) = Len(test_data)
  /\ pc = "save" => /\ Len(results) = Len(test_data)
                    /\ Len(table) = Len(test_data) + 1

C1_Witness ==
  /\ pc = "save"
  /\ Len(test_data) = 2
  /\ Len(table) = 3
  /\ \E k \in 1..2 : \A m \in ModelNames : IsNull(PredCell(results[k], m))

C3_NoNewDataNoOp ==
  [][(runs' = runs + 1 /\ event'.file # NoFile) =>
       LET f == event'.file
           old == files[f].rows
           hasCut == \E k \in 1..Len(old) : old[k].actual # Empty
           c == CHOOSE k \in 1..Len(old) :
                  /\ old[k].actual # Empty
                  /\ \A j \in (k + 1)..Len(old) : old[j].actual = Empty
       IN (hasCut /\ \A k \in 1..Len(source) : source[k].Date <= old[c].Date)
            => /\ ret' = "None"
               /\ pc' = "idle"
               /\ files' = files
               /\ log' = <<>>
               /\ sarima' = NewSarima /\ autots' = NewAutoTS
               /\ timemoe' = NewTimeMOE
               /\ sarimaCache' = sarimaCache]_vars

C3_Witness ==
  /\ event.act = "UpdateNoNewData"
  /\ ret = "None"
  /\ event.file \in DOMAIN files
  /\ files[event.file].complete

\* C4: a model that fails at a walk-forward step leaves only its own cell
\* of that row missing; all three models are trained at the step, the
\* row's actual is recorded and the loop goes on to the next row.  A model
\* failing at every step gives a column of missing cells beside populated
\* columns.
C4_FailureIsolated ==
  [][(pc = "loop" /\ step <= Len(test_data)) =>
       /\ pc' = "loop"
       /\ step' = step + 1
       /\ Len(results') = step
       /\ Len(log') = step
       /\ log'[step].trained = ModelNames
       /\ \A m \in ModelNames :
            IsNull(PredCell(results'[step], m)) <=> m \in log'[step].failed
       /\ results'[step].actual = test_data[step].Weekly_Close
       /\ results'[step].Date = test_data[step].Date
       /\ \A k \in 1..(step - 1) : results'[k] = results[k]]_vars

C4_Witness ==
  /\ pc = "save"
  /\ Len(test_data) = 2
  /\ \A k \in 1..2 :
       /\ IsNull(results[k].AutoTS_pred)
       /\ ~IsNull(results[k].SARIMA_pred)
       /\ ~IsNull(results[k].TimeMOE_pred)
       /\ ~IsNull(results[k].actual)
       /\ log[k].failed = {"AutoTS"}

\* C5: the window used at walk-forward step i has |S0| + (i - 1) rows: it
\* grows by one row after every step, failed model or not, and never
\* shrinks.
C5_WindowGrows ==
  /\ \A i \in 1..Len(results) : log[i].n = Len(train_data) + (i - 1)
  /\ pc = "loop" => Len(current_train) = Len(train_data) + Len(results)

C5_Witness ==
  /\ Len(results) = 2
  /\ log[1].failed # {}
  /\ log[1].n = Len(train_data)
  /\ log[2].n = Len(train_data) + 1

\* C6: at every walk-forward step the models are trained on exactly the
\* available rows dated strictly before the current test row, each once.
C6_WindowIsThePast ==
  \A i \in 1..Len(results) :
    LET past == {k \in 1..Len(data) : data[k].Date < test_data[i].Date} IN
    /\ log[i].rowDate = test_data[i].Date
    /\ log[i].dates = {data[k].Date : k \in past}
    /\ log[i].n = Cardinality(past)

C6_Witness ==
  /\ mode = "update"
  /\ Len(results) = 1
  /\ log[1].n = 3
  /\ Len(data) = 4

\* C7: the forecast row has the Date of the last test row plus 7 days and
\* a null actual, in initial training and in an update.
C7_ForecastDate ==
  (pc \in {"save", "write"} /\ test_data # <<>>) =>
    /\ table[Len(table)].Date = test_data[Len(test_data)].Date + 7
    /\ IsNull(table[Len(table)].actual)

\* C8: a persisted artifact has exactly one row with a null actual, and it
\* is its last row.
C8_OneNullActual ==
  \A n \in DOMAIN files :
    files[n].complete =>
      LET rows == files[n].rows IN
      /\ rows # <<>>
      /\ \A k \in 1..Len(rows) : (rows[k].actual = Empty) <=> (k = Len(rows))

\* C9: with a source of strictly increasing Dates, the Dates of a persisted
\* artifact are strictly increasing.
C9_DatesIncrease ==
  (\A k \in 1..(Len(source) - 1) : source[k].Date < source[k + 1].Date) =>
    \A n \in DOMAIN files :
      files[n].complete =>
        \A k \in 1..(Len(files[n].rows) - 1) :
          files[n].rows[k].Date < files[n].rows[k + 1].Date

HasCompleteArtifact(fs) ==
  \E n \in DOMAIN fs : n.ticker = Ticker /\ fs[n].complete

\* C10: an update removes the old file only after the new file is written,
\* a failed write leaves the old file as it was, and a complete artifact
\* that exists when a step of an update starts still exists after it.
C10_ArtifactSurvives ==
  [][mode = "update" =>
       /\ (pred_file \in DOMAIN files /\ pred_file \notin DOMAIN files')
            => (pc = "remove" /\ new_path \in DOMAIN files
                /\ files[new_path].complete)
       /\ (pc = "write" /\ pc' = "idle" /\ pred_file \in DOMAIN files)
            => (pred_file \in DOMAIN files'
                /\ files'[pred_file] = files[pred_file])
       /\ HasCompleteArtifact(files) => HasCompleteArtifact(files')]_vars

ArtifactsOf(fs, tk) == {n \in DOMAIN fs : n.ticker = tk}

\* C11: when an update that found new data completes, and the updated file
\* was the instrument's only artifact, the new file has another name, the
\* old file is gone and exactly one artifact of the instrument exists.
C11_OneArtifact ==
  [][(pc = "remove" /\ ArtifactsOf(files, Ticker) \subseteq {pred_file, new_path})
       => /\ new_path # pred_file
          /\ pred_file \notin DOMAIN files'
          /\ ArtifactsOf(files', Ticker) = {new_path}]_vars

DatesOf(rows) == {rows[k].Date : k \in DOMAIN rows}

Latest(dates) == CHOOSE d \in dates : \A e \in dates : e <= d

Earliest(dates) == CHOOSE d \in dates : \A e \in dates : d <= e

\* C12 as stated: the name under which an update writes the new artifact
\* holds the instrument, the clock reading, and the minimum and the maximum
\* Date over all rows of the updated table, forecast row included.
C12_NameOfUpdatedTable ==
  [][(pc = "write" /\ pc' = "remove")
       => new_path' = [timestamp |-> now',
                       ticker |-> pred_file.ticker,
                       start |-> Earliest(DatesOf(table)),
                       end |-> Latest(DatesOf(table))]]_vars

\* C12: the name under which an update writes the new artifact holds the
\* instrument, the clock reading, the minimum Date of the updated table and
\* the maximum Date of the newly appended walk-forward rows; the written
\* table ends with a later Date, the one of the forecast row, whenever the
\* forecast row follows the last walk-forward row.
C12_NameOfObservedRange ==
  [][(pc = "write" /\ pc' = "remove")
       => /\ new_path' = [timestamp |-> now',
                          ticker |-> pred_file.ticker,
                          start |-> Earliest(DatesOf(table)),
                          end |-> Latest(DatesOf(results))]
          /\ new_path' \in DOMAIN files'
          /\ files'[new_path'].rows = ToCsv(table)]_vars

C12_Witness ==
  /\ pc = "remove"
  /\ mode = "update"
  /\ new_path.timestamp = now
  /\ new_path.end = Latest(DatesOf(results))
  /\ new_path.end < Latest(DatesOf(table))
  /\ new_path.start = Earliest(DatesOf(table))

\* a step in which update_predictions_file is entered for the file f
Attempted(f) ==
  /\ pc = "idle"
  /\ runs' = runs + 1 \/ batch # <<>>
  /\ event'.file = f
  /\ f \in DOMAIN files

\* the file has an 'actual' column and no row with a value in it
NoConfirmedRow(content) ==
  /\ "actual" \in content.columns
  /\ \A k \in DOMAIN content.rows : content.rows[k].actual = Empty

C14_MissingColumnRaisesFirst ==
  [][\A f \in DOMAIN files :
       (Attempted(f) /\ "actual" \notin files[f].columns)
         => /\ ret' = "raised"
            /\ pc' = "idle"
            /\ files' = files
            /\ sarimaCache' = sarimaCache
            /\ data' = data
            /\ <<sarima, autots, timemoe>>' = <<sarima, autots, timemoe>>
            /\ log' = log]_vars

C14_Witness ==
  /\ event.file \in DOMAIN files
  /\ "actual" \notin files[event.file].columns
  /\ ArtifactsOf(files, Ticker) # {}
  /\ pc = "idle"
  /\ ret = "raised"

\* C15: an update of an artifact with a confirmed row whose instrument has
\* no series in the scraped data raises to its caller; the old file and the
\* set of files of the directory, and the order cache, stay as they were.
C15_SourceErrorPropagates ==
  [][\A f \in DOMAIN files :
       (/\ Attempted(f)
        /\ "actual" \in files[f].columns
        /\ ~NoConfirmedRow(files[f])
        /\ f.ticker # Ticker)
         => /\ ret' = "raised"
            /\ pc' = "idle"
            /\ files' = files
            /\ sarimaCache' = sarimaCache
            /\ log' = log]_vars

C15_Witness ==
  /\ event.file \in DOMAIN files
  /\ event.file.ticker # Ticker
  /\ "actual" \in files[event.file].columns
  /\ ~NoConfirmedRow(files[event.file])
  /\ Len(source) > Len(SeedSource)
  /\ pc = "idle"
  /\ ret = "raised"

Range(q) == {q[i] : i \in DOMAIN q}

\* a step in which the update of a file, begun in a directory run that has
\* further files to do, ends with an exception after training
FailsLate ==
  /\ mode = "update" /\ pc # "idle"
  /\ pc' = "idle" /\ ret' = "raised"
  /\ batch # <<>>

\* a step in which the update of the next file of a directory run ends with
\* an exception at once
FailsEarly ==
  /\ pc = "idle" /\ batch # <<>>
  /\ pc' = "idle" /\ ret' = "raised"

\* the steps of a directory run take the files of the listing one by one,
\* whatever the outcome of each, and the listing holds every file of the
\* directory at the start of the run once
TakesEveryFile ==
  /\ (batch = <<>> /\ batch' # <<>>)
       => /\ Range(batch') = DOMAIN files
          /\ Len(batch') = Cardinality(DOMAIN files)
  /\ (batch # <<>> /\ pc = "idle")
       => /\ batch' = Tail(batch)
          /\ event'.file = Head(batch)
  /\ batch' # batch => pc = "idle"

C17_CachedOrderIsUsed ==
  [][(pc = "loop" /\ sarimaCache # NoOrder)
       => /\ sarimaCache' = sarimaCache
          /\ Len(log') = Len(log) + 1
               => LET e == log'[Len(log')] IN
                  /\ e.cached = sarimaCache
                  /\ ~e.searched
                  /\ e.outcome.sFit => e.order = sarimaCache
                  /\ e.order \in {NoOrder, sarimaCache}]_vars

C17_Witness ==
  /\ Len(log) >= 3
  /\ log[1].cached = 1
  /\ sarimaCache = 1
  /\ \E i \in DOMAIN log : log[i].outcome.sFound = 2 /\ log[i].order = 1
  /\ \A i \in DOMAIN log : ~log[i].searched

RowOfCall(i) == IF i <= Len(results) THEN results[i] ELSE table[Len(table)]

\* the i-th train call is of a run whose rows are still at hand
HasRowOfCall(i) == i <= Len(results) \/ (i = Len(log) /\ table # <<>>)

\* the weights were not loaded, or the forward pass failed
TimeMOEFailed(e) == ~e.loaded \/ ~e.outcome.tFwd

C20_FailedFitLeavesUntrained ==
  \A i \in DOMAIN log :
    ("AutoTS" \in log[i].trained /\ ~log[i].outcome.aFit)
      => /\ "AutoTS" \notin log[i].raisedInTrain
         /\ ~log[i].autots
         /\ "AutoTS" \in log[i].failed
         /\ HasRowOfCall(i) => IsNull(RowOfCall(i).AutoTS_pred)

C20_Witness ==
  /\ Len(log) >= 3
  /\ log[1].autots /\ ~IsNull(RowOfCall(1).AutoTS_pred)
  /\ ~log[2].outcome.aFit /\ ~log[2].autots
  /\ IsNull(RowOfCall(2).AutoTS_pred)
  /\ log[3].autots

\* C21: for each of the three models, a predict call on an instance on
\* which no earlier train call has succeeded raises (the not-trained
\* ValueError) and returns no forecast value.
TrainedBefore(i) ==
  \E j \in 1..(i - 1) :
    log[j].call = "train" /\ log[j].model = log[i].model /\ log[j].ok

C21_PredictBeforeTrainRaises ==
  pc = "api" =>
    \A i \in 1..Len(log) :
      log[i].call = "predict" /\ ~TrainedBefore(i)
        => log[i].raised /\ IsNull(log[i].value)

C21_Witness ==
  /\ pc = "api"
  /\ Len(log) = 3
  /\ log[1].call = "predict" /\ log[1].model = "TimeMOE" /\ log[1].raised
  /\ log[2].call = "train" /\ log[2].model = "AutoTS" /\ ~log[2].ok
  /\ log[3].call = "predict" /\ log[3].model = "AutoTS" /\ log[3].raised

\* C22: when the series given to the walk-forward trainer lacks Date or
\* Weekly_Close, the step of the loop that meets it ends the call with the
\* models' invalid-input ValueError, and no block of the pass has caught a
\* model's failure and recorded a missing prediction instead.
C22_InvalidInputPropagates ==
  [][pc = "loop" /\ step <= Len(test_data) /\ ~(RequiredCols \subseteq columns)
       => /\ pc' = "idle"
          /\ ret' = "ValueError"
          /\ \A i \in 1..Len(log') : log'[i].failed = {}]_vars

\* C29: a prediction cell of a walk-forward row is missing only if the
\* train or the predict call of that model failed on the row's window: the
\* train raised, or the library call behind the fit, the load or the
\* forecast failed in that pass.
OwnFailure(e, m) ==
  \/ m \in e.raisedInTrain
  \/ m = "SARIMA" /\ (~e.outcome.sFit \/ ~e.outcome.sPred)
  \/ m = "AutoTS" /\ (~e.outcome.aFit \/ ~e.outcome.aPred)
  \/ m = "TimeMOE" /\ (e.outcome.tLoad # "ok" \/ ~e.outcome.tFwd)

C29_MissingOnlyOnOwnFailure ==
  pc = "loop" =>
    \A i \in 1..Len(results) : \A m \in ModelNames :
      IsNull(PredCell(results[i], m)) => OwnFailure(log[i], m)

\* C23: two trainers that process two instruments side by side end, under
\* every interleaving of their steps, with the artifact and the cache entry
\* each of them produces when it runs alone.
ArtifactOfThread(tk) ==
  {files[f].rows : f \in {g \in DOMAIN files : g.ticker = tk}}

C23_InterleavingEqualsSequential ==
  pc = "threads" =>
    \A tk \in Trainers :
      threads[tk].pc = "done"
        => /\ ArtifactOfThread(tk) = {ToCsv(SoloResults(tk, ThreadRows))}
           /\ threads[tk].params = 1

\* C24: the series on which the models are trained for the forward-forecast
\* row is the final expanding window of the loop: the initial training rows
\* followed by all test rows, none dropped and none added.
C24_ForecastWindowIsFinalWindow ==
  pc \in {"save", "write"} =>
    LET e == log[Len(log)] IN
    /\ current_train = train_data \o test_data
    /\ e.n = Len(current_train)
    /\ e.dates = {current_train[k].Date : k \in 1..Len(current_train)}

\* C25: in a walk-forward run that starts with no cache entry the order
\* search runs in the first pass, and once a search has succeeded no later
\* pass of the run, the forward forecast included, runs it again: every
\* later successful fit uses the order found by that search.
C25_SearchedOncePerRun ==
  (log # <<>> /\ log[1].cached = NoOrder) =>
    /\ log[1].searched
    /\ \A i \in DOMAIN log :
         log[i].searched /\ log[i].outcome.sFit
           => \A j \in DOMAIN log :
                j > i => /\ ~log[j].searched
                         /\ log[j].cached = log[i].outcome.sFound
                         /\ log[j].outcome.sFit
                              => log[j].order = log[i].outcome.sFound

C25_Witness ==
  /\ pc = "save"
  /\ Len(log) >= 3
  /\ log[1].cached = NoOrder /\ log[1].searched
  /\ log[1].outcome.sFit /\ log[1].outcome.sFound = 2
  /\ log[Len(log)].outcome.sFound = 1 /\ log[Len(log)].order = 2
  /\ \A j \in 2..Len(log) : ~log[j].searched

\* C26: in an update the fetched rows are split at the cutoff Date into the
\* training rows (Date <= cutoff) and the new rows (Date > cutoff), two
\* disjoint parts that cover every fetched row; the table to be written is
\* the kept rows of the old artifact, then one walk-forward row for each
\* new row, in source order, with that row's Date and value as actual, then
\* the forecast row; no training row is appended.
CutoffDate == old_pred[cut_idx].Date

C26_NewRowsAppendedOnce ==
  (pc = "write" /\ mode = "update") =>
    LET T == Len(test_data)
        walk == SubSeq(table, cut_idx + 1, cut_idx + T)
    IN /\ \A k \in 1..Len(data) :
            \/ /\ data[k].Date <= CutoffDate
               /\ Len(train_data) >= k /\ train_data[k] = data[k]
            \/ /\ data[k].Date > CutoffDate
               /\ k > Len(train_data) /\ test_data[k - Len(train_data)] = data[k]
       /\ Len(train_data) + T = Len(data)
       /\ Len(table) = cut_idx + T + 1
       /\ SubSeq(table, 1, cut_idx) = SubSeq(old_pred, 1, cut_idx)
       /\ \A k \in 1..T : /\ walk[k].Date = test_data[k].Date
                           /\ walk[k].actual = test_data[k].Weekly_Close
                           /\ walk[k].Date > CutoffDate
       /\ table[Len(table)].actual = None

C26_Witness ==
  /\ pc = "write" /\ mode = "update"
  /\ Len(test_data) = 2
  /\ Len(train_data) >= 2
  /\ cut_idx >= 1
  /\ table[cut_idx + 1].Date < table[cut_idx + 2].Date
  /\ table[cut_idx + 2].actual = test_data[2].Weekly_Close

\* C27: an update that is run right after a successful update, on the
\* artifact that update left, with the source unchanged in between, finds
\* no row after the confirmed cutoff: it returns None, writes nothing and
\* removes nothing.
C27_SecondUpdateIsNoOp ==
  [][\A f \in DOMAIN files :
       (/\ event.act = "UpdateRemove" /\ ret = "path"
        /\ DOMAIN files = {f}
        /\ Attempted(f))
         => /\ pc' = "idle"
            /\ ret' = "None"
            /\ files' = files]_vars

\* C28: a prediction that is not missing, recorded for a model in a pass of
\* the run (a walk-forward row or the forecast row), comes from that model
\* after its train call on the window of that very pass completed without
\* an exception and left it fitted: the value is the forecast of a fit on
\* that window or, for AutoTS, the mean of the last observations of that
\* window; a fit or series of an earlier pass is never the origin.
TrainedInPass(e, m) ==
  /\ m \in e.trained
  /\ m \notin e.raisedInTrain
  /\ m = "SARIMA" => e.outcome.sFit
  /\ m = "AutoTS" => e.outcome.aFit /\ e.autots
  /\ m = "TimeMOE" => e.loaded

ValuesOfWindow(e, m) ==
  LET closes == CloseSeries(Head_n(data, e.n)) IN
  {Forecast(closes)}
    \cup (IF m = "AutoTS"
            THEN {MeanCode(LastValues(closes, FALLBACK_WINDOW))} ELSE {})

RowOfPass(i) == IF i <= Len(results) THEN results[i] ELSE table[Len(table)]

C28_PredictionFromOwnWindow ==
  (mode = "initial" /\ pc \in {"loop", "save"}) =>
    \A i \in 1..Len(log) : \A m \in ModelNames :
      ~IsNull(PredCell(RowOfPass(i), m))
        => /\ TrainedInPass(log[i], m)
           /\ PredCell(RowOfPass(i), m) \in ValuesOfWindow(log[i], m)

C28_Witness ==
  /\ mode = "initial" /\ pc = "save"
  /\ Len(results) >= 2
  /\ ~log[2].outcome.sFit
  /\ log[2].order # NoOrder
  /\ IsNull(results[2].SARIMA_pred)
  /\ ~IsNull(results[2].AutoTS_pred)
  /\ \E i \in 1..Len(results) :
       ~log[i].outcome.aPred /\ ~IsNull(results[i].AutoTS_pred)

\* C30: the name of every artifact written by initial training or by an
\* update is matched by derive_ticker, which returns from it the ticker the
\* artifact was written for; so no update that has to derive the ticker
\* from such a name is refused.
C30_NamesParseBack ==
  pc = "names" =>
    /\ \A f \in DOMAIN files :
         DeriveTicker(NameText(f)) = [raised |-> FALSE, ticker |-> Chars(f.ticker)]
    /\ event.act = "NameUpdate" => ret # "raised"

====
